---------------------------- MODULE Spec2Model ----------------------------
(***************************************************************************)
(* Multi-Prompt-Agent: the agent-handoff schema (src/database/models.py),  *)
(* the capability binder (src/agents/agent_factory.py) and the per-session *)
(* dispatcher (src/agents/multi_agent.py).                                 *)
(*                                                                         *)
(* Text is modelled as a sequence of one-character strings, so that        *)
(* lengths, strip(), lower() and the identifier patterns are computed.     *)
(* A formatted message is the concatenation of its pieces.                 *)
(***************************************************************************)
EXTENDS Integers, Sequences, FiniteSets, TLC

VARIABLES
    agent_schema,   \* per session: the node list get_customer returned
    command,        \* per session: the hash stored under session:{room}:{identity}
    pc,             \* per session: "waiting" | "started" | "skipped" | "raised"
    agent_classes,  \* per session: the name -> class table of agent_factory
    active,         \* per session: the set of node instances the session runs
    entered,        \* per session: the prompts said since the last activation
    result,         \* per session: what the last invoked handler returned
    record,         \* per session: the last "Handoff: x -> y" log record
    created,        \* per session: the number of node instances built so far
    request,        \* the graph spec handed to CustomerSchema(**data)
    built,          \* what CustomerSchema(**request) gave: a graph or errors
    reparsed,       \* what CustomerSchema(**built.dict()) gave
    store,          \* the documents of the collection customers.schemas
    pending,        \* create_customer calls between find_one and insert_one
    response,       \* the response of the last finished API request
    calls,          \* the number of API requests received so far
    rooms,          \* the number of rooms created by start_session
    accepted,       \* the documents handed to insert_one / replace_one so far
    client,         \* DatabaseManager.client
    db,             \* DatabaseManager.db
    collection,     \* DatabaseManager.collection
    max_retries,    \* DatabaseManager.max_retries
    attempt,        \* the loop variable of the connect() in progress
    conn_pc,        \* "idle" | "attempt": where the manager's coroutine stands
    caller,         \* "connect" | "init_database": who runs the connect()
    pings,          \* the outcomes of the pings of the last connect()
    sleeps,         \* the backoffs slept by the last connect()
    conn_result     \* what the manager's last finished method gave

session_vars == <<agent_schema, command, pc, agent_classes, active, entered,
                  result, record, created>>

schema_vars == <<request, built, reparsed>>

conn_vars == <<client, db, collection, max_retries, attempt, conn_pc, caller,
               pings, sleeps, conn_result>>

api_vars == <<store, pending, response, calls, rooms, accepted, conn_vars>>

vars == <<agent_schema, command, pc, agent_classes, active, entered, result,
          record, created, request, built, reparsed, store, pending, response,
          calls, rooms, accepted, client, db, collection, max_retries,
          attempt, conn_pc, caller, pings, sleeps, conn_result>>

(***************************************************************************)
(* Bounds of the model.                                                    *)
(***************************************************************************)
MaxAgents == 2
MaxEdges == 2
MaxInstances == 3

Sessions == {"s1"}

None == [none |-> TRUE]

(***************************************************************************)
(* The inputs of the dispatcher: well-formed node definitions.  Each       *)
(* definition satisfies the field rules of AgentConfig and AgentEdge; the  *)
(* rules of the whole list (unique names, resolved targets, at least one   *)
(* node) are not assumed, since the worker reads the list from the         *)
(* database and does not validate it again.                                *)
(***************************************************************************)
AgentNames == {<<"A">>, <<"B">>}
EdgeNames == {<<"g", "o">>, <<"t", "o">>}
EdgeActions == {<<"h","a","n","d","o","f","f">>, <<"a","c","t","i","o","n">>}
HANDOFF == <<"h","a","n","d","o","f","f">>

\* The text of the i-th definition of a list: distinct per position, so
\* that two definitions of one name can be told apart.
InstructionsAt(i) == <<"instructions of node ", ToString(i)>>
PromptAt(i) == <<"hello from node ", ToString(i)>>
DescriptionOf(n) == <<"use ">> \o n

Commands ==
    { [x \in {} |-> <<>>] } \cup
    { [action |-> a, customer_id |-> <<"c", "1">>] :
        a \in {<<"start_session">>, <<"stop_session">>} }

Range(s) == { s[i] : i \in DOMAIN s }

TotalEdges(list) ==
    LET RECURSIVE Sum(_)
        Sum(i) == IF i = 0 THEN 0 ELSE Len(list[i].edges) + Sum(i - 1)
    IN Sum(Len(list))

(***************************************************************************)
(* agent_factory                                                           *)
(***************************************************************************)
NotHandoffReply == <<"I can't do that right now.">>

\* create_handoff_tool: a function tool for a handoff edge with a non-empty
\* target, the fixed reply string for every other edge.  The handler of the
\* tool keeps the target name, not the target class: it reads the table when
\* it is called.
create_handoff_tool(edge_spec) ==
    IF edge_spec.action = HANDOFF /\ edge_spec.target_agent # <<>>
    THEN [type |-> "function_tool",
          name |-> edge_spec.name,
          description |-> edge_spec.description
                            \o <<". Will handoff to: ">>
                            \o edge_spec.target_agent,
          target |-> edge_spec.target_agent]
    ELSE [type |-> "str", text |-> NotHandoffReply]

\* The tools list of one node definition: one entry per edge, in order
\* (the result of create_handoff_tool is never None, so it is always kept).
ToolsOf(agent_def) ==
    [k \in 1..Len(agent_def.edges) |-> create_handoff_tool(agent_def.edges[k])]

\* make_agent_class: the class generated for one definition.
make_agent_class(agent_def) ==
    [name |-> agent_def.name,
     instructions |-> agent_def.instructions,
     on_enter_prompt |-> agent_def.on_enter_prompt,
     tools |-> ToolsOf(agent_def)]

\* First pass: a None slot for every name of the list.
FirstPass(agent_list) ==
    [n \in { agent_list[i].name : i \in DOMAIN agent_list } |-> None]

\* Second pass: agent_map[name] = make_agent_class(), definition by
\* definition in list order (a later definition of a name replaces an
\* earlier one).
RECURSIVE SecondPass(_, _, _)
SecondPass(agent_map, agent_list, i) ==
    IF i > Len(agent_list) THEN agent_map
    ELSE SecondPass(
            [agent_map EXCEPT ![agent_list[i].name] = make_agent_class(agent_list[i])],
            agent_list, i + 1)

\* A tools list created once, outside the loop over the definitions, and so
\* shared by every class.
AllTools(agent_list) ==
    LET RECURSIVE Cat(_)
        Cat(i) == IF i = 0 THEN <<>> ELSE Cat(i - 1) \o ToolsOf(agent_list[i])
    IN Cat(Len(agent_list))

agent_factory_shared_tools(agent_list) ==
    [n \in DOMAIN SecondPass(FirstPass(agent_list), agent_list, 1) |->
        [SecondPass(FirstPass(agent_list), agent_list, 1)[n]
            EXCEPT !.tools = AllTools(agent_list)]]

agent_factory(agent_list) == SecondPass(FirstPass(agent_list), agent_list, 1)

\* The variable `name` of agent_factory that the handlers' log line reads:
\* a variable of the enclosing function, holding the name of the last
\* definition once the second pass is over.
FactoryName(agent_list) == agent_list[Len(agent_list)].name

(***************************************************************************)
(* Node instances and the handler of a handoff tool                        *)
(***************************************************************************)
InstantiateNoPrompt(cls, s, id) ==
    [name |-> cls.name,
     instructions |-> cls.instructions,
     tools |-> cls.tools,
     _on_enter_prompt |-> <<>>,
     session |-> s,
     id |-> id]

\* One instance per class for the whole process, whichever session asks.
InstantiateShared(cls, s, id) ==
    [name |-> cls.name,
     instructions |-> cls.instructions,
     tools |-> cls.tools,
     _on_enter_prompt |-> cls.on_enter_prompt,
     session |-> "process",
     id |-> 0]

\* cls(): a new instance of a generated class.
Instantiate(cls, s, id) ==
    [name |-> cls.name,
     instructions |-> cls.instructions,
     tools |-> cls.tools,
     _on_enter_prompt |-> cls.on_enter_prompt,
     session |-> s,
     id |-> id]

\* on_enter: say the entry prompt when there is one.
on_enter(instance) ==
    IF instance._on_enter_prompt # <<>>
    THEN << instance._on_enter_prompt >>
    ELSE << >>

NotFoundErrorNoName(target) ==
    [type |-> "str", text |-> <<"Error: Target agent not found">>]

NotFoundError(target) ==
    [type |-> "str",
     text |-> <<"Error: Target agent ">> \o target \o <<" not found">>]

\* handler: the table is read at the time of the call.
TargetMissing(agent_map, target) ==
    target \notin DOMAIN agent_map \/ agent_map[target] = None

\* A handler that holds the class its target's slot held when the tool was
\* built: the slot of a node is still empty while the node's own tools are
\* built, so an edge of a node to itself finds nothing.
handler_captured(tool, agent_map, s, id) ==
    IF \/ TargetMissing(agent_map, tool.target)
       \/ \E k \in DOMAIN agent_map[tool.target].tools :
                agent_map[tool.target].tools[k] = tool
    THEN NotFoundError(tool.target)
    ELSE [type |-> "agent", agent |-> Instantiate(agent_map[tool.target], s, id)]

handler(tool, agent_map, s, id) ==
    IF TargetMissing(agent_map, tool.target)
    THEN NotFoundError(tool.target)
    ELSE [type |-> "agent", agent |-> Instantiate(agent_map[tool.target], s, id)]

(***************************************************************************)
(* The session's reaction to a tool result (the contract of the session    *)
(* runtime): a returned node replaces the running one and is entered; any   *)
(* other value is handed back to the reasoning layer as the tool's output. *)
(***************************************************************************)
UpdateAgentKeepsOld(running, ret) ==
    IF ret.type = "agent" THEN running \cup {ret.agent} ELSE running

UpdateAgent(running, ret) ==
    IF ret.type = "agent" THEN {ret.agent} ELSE running

\* session.start(room, agent=initial_agent): the nodes the new session runs.
StartAgentsNone(initial_agent) == {}

StartAgents(initial_agent) == {initial_agent}

\* DatabaseManager.__init__: the default number of connection attempts.
DefaultMaxRetries == 3

\* What a method of the manager gave: the value it returned (written as
\* Python writes it) or the exception it raised, and for get_customer the
\* customer_id it was called with and the list it returned.
MethodResult(op, arg, returned, raised, value) ==
    [op |-> op, arg |-> arg, returned |-> returned, raised |-> raised,
     value |-> value]

\* AsyncIOMotorClient(...), client.customers, db.schemas
Client == [handle |-> "AsyncIOMotorClient"]
Database == [handle |-> "customers"]
Collection == [handle |-> "schemas"]

\* DatabaseManager.__init__(max_retries = n)
DatabaseManager(n) ==
    /\ client = None
    /\ db = None
    /\ collection = None
    /\ max_retries = n
    /\ attempt = 0
    /\ conn_pc = "idle"
    /\ caller = ""
    /\ pings = <<>>
    /\ sleeps = <<>>
    /\ conn_result = MethodResult("__init__", <<>>, "None", "", <<>>)

\* db_manager after the startup of the API: init_database connected at its
\* first ping and created the unique index.
startup_event ==
    /\ client = Client
    /\ db = Database
    /\ collection = Collection
    /\ max_retries = DefaultMaxRetries
    /\ attempt = 0
    /\ conn_pc = "idle"
    /\ caller = "init_database"
    /\ pings = <<"ok">>
    /\ sleeps = <<>>
    /\ conn_result = MethodResult("init_database", <<>>, "None", "", <<>>)

\* No API request was received and the collection is empty; db_manager is
\* the module's DatabaseManager().
ApiIdle ==
    /\ store = {}
    /\ pending = <<>>
    /\ response = None
    /\ calls = 0
    /\ rooms = 0
    /\ accepted = {}
    /\ DatabaseManager(DefaultMaxRetries)

(***************************************************************************)
(* Initial state                                                           *)
(***************************************************************************)
Init ==
    /\ agent_schema = [s \in Sessions |-> <<>>]
    /\ command \in [Sessions -> Commands]
    /\ pc = [s \in Sessions |-> "waiting"]
    /\ agent_classes = [s \in Sessions |-> None]
    /\ active = [s \in Sessions |-> {}]
    /\ entered = [s \in Sessions |-> <<>>]
    /\ result = [s \in Sessions |-> None]
    /\ record = [s \in Sessions |-> None]
    /\ created = [s \in Sessions |-> 0]
    /\ request = None
    /\ built = None
    /\ reparsed = None
    /\ ApiIdle

(***************************************************************************)
(* The stored node list of the session's customer, definition by           *)
(* definition and edge by edge (the document the database holds when the   *)
(* worker loads it).                                                       *)
(***************************************************************************)
StoreAgent(s, n) ==
    /\ pc[s] = "waiting"
    /\ Len(agent_schema[s]) < MaxAgents
    /\ agent_schema' = [agent_schema EXCEPT ![s] =
            Append(@, [name |-> n,
                       instructions |-> InstructionsAt(Len(@) + 1),
                       on_enter_prompt |-> PromptAt(Len(@) + 1),
                       tools |-> <<>>,
                       edges |-> <<>>])]
    /\ UNCHANGED <<command, pc, agent_classes, active, entered, result,
                   record, created>>
    /\ UNCHANGED schema_vars
    /\ UNCHANGED api_vars

StoreEdge(s, n, a, t) ==
    /\ pc[s] = "waiting"
    /\ agent_schema[s] # <<>>
    /\ TotalEdges(agent_schema[s]) < MaxEdges
    /\ LET last == Len(agent_schema[s])
       IN agent_schema' = [agent_schema EXCEPT ![s][last].edges =
            Append(@, [name |-> n,
                       description |-> DescriptionOf(n),
                       action |-> a,
                       target_agent |-> t])]
    /\ UNCHANGED <<command, pc, agent_classes, active, entered, result,
                   record, created>>
    /\ UNCHANGED schema_vars
    /\ UNCHANGED api_vars

(***************************************************************************)
(* entrypoint, from the participant's join on                              *)
(***************************************************************************)
FirstAgentIsLast(schema) == schema[Len(schema)].name

\* first_agent = agent_schema[0]['name']
FirstAgent(schema) == schema[1].name

\* command["customer_id"] raises KeyError on an empty hash and
\* agent_schema[0] raises IndexError on an empty list: the job ends there.
EntrypointRaises(s) ==
    /\ pc[s] = "waiting"
    /\ \/ "customer_id" \notin DOMAIN command[s]
       \/ agent_schema[s] = <<>>
    /\ pc' = [pc EXCEPT ![s] = "raised"]
    /\ UNCHANGED <<agent_schema, command, agent_classes, active, entered,
                   result, record, created>>
    /\ UNCHANGED schema_vars
    /\ UNCHANGED api_vars

\* The classes are built and the first node is instantiated; the command is
\* not a start_session command, so no session is started.
EntrypointSkips(s) ==
    /\ pc[s] = "waiting"
    /\ "customer_id" \in DOMAIN command[s]
    /\ agent_schema[s] # <<>>
    /\ command[s].action # <<"start_session">>
    /\ agent_classes' = [agent_classes EXCEPT ![s] = agent_factory(agent_schema[s])]
    /\ created' = [created EXCEPT ![s] = @ + 1]
    /\ pc' = [pc EXCEPT ![s] = "skipped"]
    /\ UNCHANGED <<agent_schema, command, active, entered, result, record>>
    /\ UNCHANGED schema_vars
    /\ UNCHANGED api_vars

\* session.start(agent=initial_agent): the instance of the class stored
\* under the first definition's name becomes the running node and is entered.
EntrypointStarts(s) ==
    /\ pc[s] = "waiting"
    /\ "customer_id" \in DOMAIN command[s]
    /\ agent_schema[s] # <<>>
    /\ command[s].action = <<"start_session">>
    /\ LET first_agent == FirstAgent(agent_schema[s])
           classes == agent_factory(agent_schema[s])
           initial_agent == Instantiate(classes[first_agent], s, created[s] + 1)
       IN /\ agent_classes' = [agent_classes EXCEPT ![s] = classes]
          /\ created' = [created EXCEPT ![s] = @ + 1]
          /\ active' = [active EXCEPT ![s] = StartAgents(initial_agent)]
          /\ entered' = [entered EXCEPT ![s] = on_enter(initial_agent)]
    /\ pc' = [pc EXCEPT ![s] = "started"]
    /\ UNCHANGED <<agent_schema, command, result, record>>
    /\ UNCHANGED schema_vars
    /\ UNCHANGED api_vars

(***************************************************************************)
(* A handoff invocation: the reasoning layer calls tool k of the running   *)
(* node.                                                                   *)
(***************************************************************************)
Invoke(s, k) ==
    /\ pc[s] = "started"
    /\ created[s] < MaxInstances
    /\ \E node \in active[s] :
        /\ k \in DOMAIN node.tools
        /\ node.tools[k].type = "function_tool"
        /\ LET tool == node.tools[k]
               ret == handler(tool, agent_classes[s], s, created[s] + 1)
           IN /\ result' = [result EXCEPT ![s] = ret]
              /\ active' = [active EXCEPT ![s] = UpdateAgent(@, ret)]
              /\ IF ret.type = "agent"
                 THEN /\ created' = [created EXCEPT ![s] = @ + 1]
                      /\ record' = [record EXCEPT ![s] =
                            [source |-> FactoryName(agent_schema[s]),
                             target |-> tool.target]]
                      /\ entered' = [entered EXCEPT ![s] = on_enter(ret.agent)]
                 ELSE UNCHANGED <<created, record, entered>>
    /\ UNCHANGED <<agent_schema, command, pc, agent_classes>>
    /\ UNCHANGED schema_vars
    /\ UNCHANGED api_vars

Next ==
    \E s \in Sessions :
        \/ \E n \in AgentNames : StoreAgent(s, n)
        \/ \E n \in EdgeNames, a \in EdgeActions, t \in AgentNames :
                StoreEdge(s, n, a, t)
        \/ EntrypointRaises(s)
        \/ EntrypointSkips(s)
        \/ EntrypointStarts(s)
        \/ \E k \in 1..MaxEdges : Invoke(s, k)

Spec == Init /\ [][Next]_vars

(***************************************************************************)
(* Two sessions of one customer: each worker job reads the same stored     *)
(* node list and runs entrypoint on its own.                               *)
(***************************************************************************)
Pair == {"s1", "s2"}

\* The definitions a stored list can have at position i: a name and at most
\* one handoff edge.
NodeDefs(i) ==
    { [name |-> n,
       instructions |-> InstructionsAt(i),
       on_enter_prompt |-> PromptAt(i),
       tools |-> <<>>,
       edges |-> e] :
        n \in AgentNames,
        e \in { <<>> } \cup
              { << [name |-> <<"g", "o">>,
                    description |-> DescriptionOf(<<"g", "o">>),
                    action |-> HANDOFF,
                    target_agent |-> t] >> : t \in AgentNames } }

RECURSIVE ListsOf(_)
ListsOf(n) ==
    IF n = 0 THEN { <<>> }
    ELSE { Append(l, d) : l \in ListsOf(n - 1), d \in NodeDefs(n) }

SharedGraphs == UNION { ListsOf(n) : n \in 1..MaxAgents }

InitPair ==
    /\ \E g \in SharedGraphs : agent_schema = [s \in Pair |-> g]
    /\ command = [s \in Pair |->
            [action |-> <<"start_session">>, customer_id |-> <<"c", "1">>]]
    /\ pc = [s \in Pair |-> "waiting"]
    /\ agent_classes = [s \in Pair |-> None]
    /\ active = [s \in Pair |-> {}]
    /\ entered = [s \in Pair |-> <<>>]
    /\ result = [s \in Pair |-> None]
    /\ record = [s \in Pair |-> None]
    /\ created = [s \in Pair |-> 0]
    /\ request = None
    /\ built = None
    /\ reparsed = None
    /\ ApiIdle

NextPair ==
    \E s \in Pair :
        \/ EntrypointStarts(s)
        \/ \E k \in 1..MaxEdges : Invoke(s, k)

SpecPair == InitPair /\ [][NextPair]_vars

(***************************************************************************)
(* Text: str.lower(), str.strip(), `in`, and the identifier patterns       *)
(***************************************************************************)
LowerLetters == <<"a", "b", "c", "d", "e", "f", "g", "h", "i", "j", "k", "l", "m", "n", "o", "p", "q", "r", "s", "t", "u", "v", "w", "x", "y", "z">>
UpperLetters == <<"A", "B", "C", "D", "E", "F", "G", "H", "I", "J", "K", "L", "M", "N", "O", "P", "Q", "R", "S", "T", "U", "V", "W", "X", "Y", "Z">>
Letters == Range(LowerLetters) \cup Range(UpperLetters)
Digits == {"0", "1", "2", "3", "4", "5", "6", "7", "8", "9"}
Whitespace == {" ", "\t", "\n", "\r"}

Rep(c, n) == [i \in 1..n |-> c]

\* The lower-case letter of every upper-case letter.
ToLower ==
    [c \in Range(UpperLetters) |->
        LowerLetters[CHOOSE i \in DOMAIN UpperLetters : UpperLetters[i] = c]]

LowerChar(c) == IF c \in DOMAIN ToLower THEN ToLower[c] ELSE c

lower(v) == [i \in 1..Len(v) |-> LowerChar(v[i])]

RECURSIVE FirstKept(_, _)
FirstKept(v, i) ==
    IF i > Len(v) THEN i
    ELSE IF v[i] \in Whitespace THEN FirstKept(v, i + 1) ELSE i

RECURSIVE LastKept(_, _)
LastKept(v, i) ==
    IF i < 1 THEN i
    ELSE IF v[i] \in Whitespace THEN LastKept(v, i - 1) ELSE i

strip(v) == SubSeq(v, FirstKept(v, 1), LastKept(v, Len(v)))

\* keyword in text: every character of the keyword occurs in the text, and
\* the keyword starts at some position of it.
In(keyword, text) ==
    \E i \in 1..(Len(text) - Len(keyword) + 1) :
        \A j \in 1..Len(keyword) : text[i + j - 1] = keyword[j]

\* re.match(r'^...$', v): `$` matches at the end of v and also just before a
\* line break that ends v.
BeforeFinalNewline(v) ==
    IF Len(v) > 0 /\ v[Len(v)] = "\n" THEN SubSeq(v, 1, Len(v) - 1) ELSE v

\* ^[a-zA-Z_][a-zA-Z0-9_]*$
MatchesToolName(v) ==
    LET w == BeforeFinalNewline(v)
    IN /\ Len(w) >= 1
       /\ w[1] \in Letters \cup {"_"}
       /\ \A i \in 2..Len(w) : w[i] \in Letters \cup Digits \cup {"_"}

\* ^[a-zA-Z][a-zA-Z0-9_]*$
MatchesAgentName(v) ==
    LET w == BeforeFinalNewline(v)
    IN /\ Len(w) >= 1
       /\ w[1] \in Letters
       /\ \A i \in 2..Len(w) : w[i] \in Letters \cup Digits \cup {"_"}

\* ^[a-zA-Z0-9_-]+$
MatchesCustomerId(v) ==
    LET w == BeforeFinalNewline(v)
    IN /\ Len(w) >= 1
       /\ \A i \in 1..Len(w) : w[i] \in Letters \cup Digits \cup {"_", "-"}

\* Field(pattern="^(handoff|action)$"): the pattern of a field is matched by
\* the validation library's own engine, whose `$` is the end of the text.
PLAIN_ACTION == <<"a", "c", "t", "i", "o", "n">>
MatchesAction(v) == v = HANDOFF \/ v = PLAIN_ACTION

(***************************************************************************)
(* models.py: the declared bounds                                          *)
(***************************************************************************)
EdgeNameMax == 100
EdgeDescriptionMax == 500
TargetAgentMax == 100
AgentNameMax == 100
InstructionsMin == 10
InstructionsMax == 10000
OnEnterPromptMax == 1000
CustomerIdMax == 50
CustomerNameMax == 200
CustomerDescriptionMax == 1000
AgentsMax == 20

prohibited_keywords ==
    { <<"e", "x", "e", "c", "u", "t", "e">>, <<"e", "v", "a", "l">>, <<"_", "_", "i", "m", "p", "o", "r", "t", "_", "_">>, <<"s", "u", "b", "p", "r", "o", "c", "e", "s", "s">> }

(***************************************************************************)
(* Validation errors: the field, its place (agent and edge index, 0 when   *)
(* not in one), the kind of error and, for a validator's ValueError, its   *)
(* message.                                                                *)
(***************************************************************************)
Error(field, i, k, type, msg) ==
    [field |-> field, agent |-> i, edge |-> k, type |-> type, msg |-> msg]

\* Field(min_length=, max_length=) of a str field
LengthErrors(field, i, k, v, min, max) ==
    IF Len(v) < min THEN {Error(field, i, k, "string_too_short", <<>>)}
    ELSE IF Len(v) > max THEN {Error(field, i, k, "string_too_long", <<>>)}
    ELSE {}

(***************************************************************************)
(* AgentEdge                                                               *)
(***************************************************************************)
\* AgentEdge.validate_name, run after the length bounds of the field
validate_name(v, i, k) ==
    IF ~MatchesToolName(v)
    THEN {Error("name", i, k, "value_error",
                <<"Tool name must be a valid identifier">>)}
    ELSE {}

AgentEdgeErrors(e, i, k) ==
    LET nameLen == LengthErrors("name", i, k, e.name, 1, EdgeNameMax)
    IN (IF nameLen # {} THEN nameLen ELSE validate_name(e.name, i, k))
       \cup LengthErrors("description", i, k, e.description, 1, EdgeDescriptionMax)
       \cup (IF MatchesAction(e.action) THEN {}
             ELSE {Error("action", i, k, "string_pattern_mismatch", <<>>)})
       \cup LengthErrors("target_agent", i, k, e.target_agent, 1, TargetAgentMax)

AgentEdgeValue(e) ==
    [name |-> e.name, description |-> e.description, action |-> e.action,
     target_agent |-> e.target_agent]

(***************************************************************************)
(* AgentConfig                                                             *)
(***************************************************************************)
\* AgentConfig.validate_agent_name
validate_agent_name(v, i) ==
    IF ~MatchesAgentName(v)
    THEN {Error("name", i, 0, "value_error",
                <<"Agent name must be a valid identifier starting with a letter">>)}
    ELSE {}

\* AgentConfig.validate_instructions: the errors it raises ...
validate_instructions_errors(v, i) ==
    IF \E keyword \in prohibited_keywords : In(keyword, lower(v))
    THEN {Error("instructions", i, 0, "value_error",
                <<"Instructions contain prohibited keywords">>)}
    ELSE {}

\* ... and the value it returns: v.strip()
validate_instructions(v) == strip(v)

AgentConfigErrors(a, i) ==
    LET nameLen == LengthErrors("name", i, 0, a.name, 1, AgentNameMax)
        insLen == LengthErrors("instructions", i, 0, a.instructions,
                               InstructionsMin, InstructionsMax)
    IN (IF nameLen # {} THEN nameLen ELSE validate_agent_name(a.name, i))
       \cup (IF insLen # {} THEN insLen
             ELSE validate_instructions_errors(a.instructions, i))
       \cup LengthErrors("on_enter_prompt", i, 0, a.on_enter_prompt, 1,
                         OnEnterPromptMax)
       \cup UNION { AgentEdgeErrors(a.edges[k], i, k) : k \in DOMAIN a.edges }

AgentConfigValue(a) ==
    [name |-> a.name,
     instructions |-> validate_instructions(a.instructions),
     on_enter_prompt |-> a.on_enter_prompt,
     tools |-> a.tools,
     edges |-> [k \in 1..Len(a.edges) |-> AgentEdgeValue(a.edges[k])]]

(***************************************************************************)
(* CustomerSchema                                                          *)
(***************************************************************************)
\* CustomerSchema.validate_customer_id
validate_customer_id(v) ==
    IF ~MatchesCustomerId(v)
    THEN [ok |-> FALSE,
          msg |-> <<"Customer ID can only contain letters, numbers, underscores, and hyphens">>]
    ELSE [ok |-> TRUE, value |-> lower(v)]

\* A uniqueness check that compares neighbours only.
validate_agent_uniqueness_adjacent(v) ==
    IF \E i \in 1..(Len(v) - 1) : v[i].name = v[i + 1].name
    THEN [ok |-> FALSE,
          msg |-> <<"Agent names must be unique within a customer">>]
    ELSE [ok |-> TRUE, value |-> v]

\* CustomerSchema.validate_agent_uniqueness
validate_agent_uniqueness(v) ==
    LET names == [i \in 1..Len(v) |-> v[i].name]
    IN IF Len(names) # Cardinality(Range(names))
       THEN [ok |-> FALSE,
             msg |-> <<"Agent names must be unique within a customer">>]
       ELSE [ok |-> TRUE, value |-> v]

\* The places <<agent index, edge index>> of the edges of a list.
EdgePlaces(v) ==
    UNION { { <<i, k>> : k \in DOMAIN v[i].edges } : i \in DOMAIN v }

\* A target check that drops the edges whose target is not in the list.
validate_edge_targets_drops(v) ==
    LET agent_names == { v[i].name : i \in DOMAIN v }
        keep(edges) == SelectSeq(edges, LAMBDA e : e.target_agent \in agent_names)
    IN [ok |-> TRUE,
        value |-> [i \in 1..Len(v) |-> [v[i] EXCEPT !.edges = keep(@)]]]

\* CustomerSchema.validate_edge_targets
validate_edge_targets(v) ==
    LET agent_names == { v[i].name : i \in DOMAIN v }
        bad == { p \in EdgePlaces(v) :
                    v[p[1]].edges[p[2]].target_agent \notin agent_names }
        first == CHOOSE p \in bad : \A q \in bad :
                    p[1] < q[1] \/ (p[1] = q[1] /\ p[2] <= q[2])
    IN IF bad # {}
       THEN [ok |-> FALSE,
             msg |-> <<"Edge target \"">>
                        \o v[first[1]].edges[first[2]].target_agent
                        \o <<"\" not found in agent list">>]
       ELSE [ok |-> TRUE, value |-> v]

\* The agents field: every item as an AgentConfig and the length bounds of
\* the list; then, only when these found nothing, the two validators of the
\* field in the order of their definition, the second only when the first
\* did not raise.
AgentsField(raw) ==
    LET itemErrors == UNION { AgentConfigErrors(raw[i], i) : i \in DOMAIN raw }
        lenErrors == IF Len(raw) < 1
                     THEN {Error("agents", 0, 0, "too_short", <<>>)}
                     ELSE IF Len(raw) > AgentsMax
                     THEN {Error("agents", 0, 0, "too_long", <<>>)}
                     ELSE {}
        items == [i \in 1..Len(raw) |-> AgentConfigValue(raw[i])]
        unique == validate_agent_uniqueness(items)
    IN IF itemErrors \cup lenErrors # {}
       THEN [errors |-> itemErrors \cup lenErrors]
       ELSE IF ~unique.ok
       THEN [errors |-> {Error("agents", 0, 0, "value_error", unique.msg)}]
       ELSE LET targets == validate_edge_targets(unique.value)
            IN IF ~targets.ok
               THEN [errors |-> {Error("agents", 0, 0, "value_error", targets.msg)}]
               ELSE [errors |-> {}, value |-> targets.value]

CustomerIdField(raw) ==
    LET lenErrors == LengthErrors("customer_id", 0, 0, raw, 1, CustomerIdMax)
        checked == validate_customer_id(raw)
    IN IF lenErrors # {} THEN [errors |-> lenErrors]
       ELSE IF ~checked.ok
       THEN [errors |-> {Error("customer_id", 0, 0, "value_error", checked.msg)}]
       ELSE [errors |-> {}, value |-> checked.value]

\* CustomerSchema(**data): the errors of all fields together, or the object.
CustomerSchema(data) ==
    LET id == CustomerIdField(data.customer_id)
        agents == AgentsField(data.agents)
        errors == id.errors
            \cup LengthErrors("name", 0, 0, data.name, 1, CustomerNameMax)
            \cup LengthErrors("description", 0, 0, data.description, 1,
                              CustomerDescriptionMax)
            \cup agents.errors
    IN IF errors # {}
       THEN [ok |-> FALSE, errors |-> errors]
       ELSE [ok |-> TRUE,
             value |-> [customer_id |-> id.value,
                        name |-> data.name,
                        description |-> data.description,
                        agents |-> agents.value]]

\* customer.dict() / model_dump(): the fields of the object, nested models
\* as dicts, lists in order.
model_dump(customer) ==
    [customer_id |-> customer.customer_id,
     name |-> customer.name,
     description |-> customer.description,
     agents |-> [i \in 1..Len(customer.agents) |->
        [name |-> customer.agents[i].name,
         instructions |-> customer.agents[i].instructions,
         on_enter_prompt |-> customer.agents[i].on_enter_prompt,
         tools |-> customer.agents[i].tools,
         edges |-> [k \in 1..Len(customer.agents[i].edges) |->
            [name |-> customer.agents[i].edges[k].name,
             description |-> customer.agents[i].edges[k].description,
             action |-> customer.agents[i].edges[k].action,
             target_agent |-> customer.agents[i].edges[k].target_agent]]]]]

(***************************************************************************)
(* Construction and round trip of a graph spec.  Two families of graph     *)
(* specs are submitted: SpecGraph varies the shape of the graph (names,    *)
(* edges, targets) with valid texts; SpecFields varies the texts of a      *)
(* one-node graph around the declared bounds.                              *)
(***************************************************************************)
MaxNodes == 3
MaxLinks == 2
MaxOdd == 2

ValidInstructions == <<"h", "e", "l", "p", " ", "t", "h", "e", " ", "u", "s", "e", "r">>
ValidPrompt == <<"h", "i">>
ValidDescription == <<"m", "o", "v", "e">>

GraphNames == {<<"A">>, <<"B">>, <<"1">>}
GraphTargets == {<<"A">>, <<"C">>}

SessionsIdle ==
    /\ agent_schema = [s \in Sessions |-> <<>>]
    /\ command = [s \in Sessions |-> <<>>]
    /\ pc = [s \in Sessions |-> "waiting"]
    /\ agent_classes = [s \in Sessions |-> None]
    /\ active = [s \in Sessions |-> {}]
    /\ entered = [s \in Sessions |-> <<>>]
    /\ result = [s \in Sessions |-> None]
    /\ record = [s \in Sessions |-> None]
    /\ created = [s \in Sessions |-> 0]

InitGraph ==
    /\ SessionsIdle
    /\ request = [customer_id |-> <<"c", "1">>,
                  name |-> <<"n">>,
                  description |-> <<"d">>,
                  agents |-> <<>>]
    /\ built = None
    /\ reparsed = None
    /\ ApiIdle

ComposeAgent(n) ==
    /\ built = None
    /\ Len(request.agents) < MaxNodes
    /\ request' = [request EXCEPT !.agents =
            Append(@, [name |-> n,
                       instructions |-> ValidInstructions,
                       on_enter_prompt |-> ValidPrompt,
                       tools |-> <<>>,
                       edges |-> <<>>])]
    /\ UNCHANGED <<built, reparsed>>
    /\ UNCHANGED session_vars
    /\ UNCHANGED api_vars

ComposeEdge(n, t) ==
    /\ built = None
    /\ request.agents # <<>>
    /\ TotalEdges(request.agents) < MaxLinks
    /\ LET last == Len(request.agents)
       IN request' = [request EXCEPT !.agents[last].edges =
            Append(@, [name |-> n,
                       description |-> ValidDescription,
                       action |-> HANDOFF,
                       target_agent |-> t])]
    /\ UNCHANGED <<built, reparsed>>
    /\ UNCHANGED session_vars
    /\ UNCHANGED api_vars

\* CustomerSchema(**request)
Construct ==
    /\ built = None
    /\ built' = CustomerSchema(request)
    /\ UNCHANGED <<request, reparsed>>
    /\ UNCHANGED session_vars
    /\ UNCHANGED api_vars

\* CustomerSchema(**customer.dict()) on a constructed graph
RoundTrip ==
    /\ built # None
    /\ built.ok
    /\ reparsed = None
    /\ reparsed' = CustomerSchema(model_dump(built.value))
    /\ UNCHANGED <<request, built>>
    /\ UNCHANGED session_vars
    /\ UNCHANGED api_vars

NextGraph ==
    \/ \E n \in GraphNames : ComposeAgent(n)
    \/ \E n \in EdgeNames, t \in GraphTargets : ComposeEdge(n, t)
    \/ Construct
    \/ RoundTrip

SpecGraph == InitGraph /\ [][NextGraph]_vars

(***************************************************************************)
(* The texts submitted by SpecFields: for each field its valid base value  *)
(* and values at and beyond its bounds.                                    *)
(***************************************************************************)
CustomerIdSamples ==
    { <<"c", "1">>, <<"C", "1">>, <<"c", "!">>, <<"c", "\n">>, <<>>,
      Rep("c", CustomerIdMax), Rep("c", CustomerIdMax + 1) }

CustomerNameSamples == { <<"n">>, <<>>, Rep("n", CustomerNameMax + 1) }

CustomerDescriptionSamples ==
    { <<"d">>, <<>>, Rep("d", CustomerDescriptionMax + 1) }

AgentNameSamples ==
    { <<"A">>, <<"1", "A">>, <<"_", "A">>, <<"A", "\n">>, <<>>,
      Rep("a", AgentNameMax), Rep("a", AgentNameMax + 1) }

InstructionsSamples ==
    { ValidInstructions,
      <<" ">> \o ValidInstructions \o <<" ">>,
      Rep(" ", InstructionsMin),
      <<" ", " ", " ", " ">> \o <<"h", "i">> \o <<" ", " ", " ", " ">>,
      Rep("a", InstructionsMin - 1),
      Rep("a", InstructionsMin),
      Rep("a", InstructionsMax),
      Rep("a", InstructionsMax + 1),
      <<"p", "l", "e", "a", "s", "e", " ", "E", "X", "E", "C", "U", "T", "E", " ", "i", "t">> }

OnEnterPromptSamples ==
    { ValidPrompt, <<>>, <<" ">>, Rep("p", OnEnterPromptMax),
      Rep("p", OnEnterPromptMax + 1) }

EdgeNameSamples ==
    { <<"g", "o">>, <<"_", "g">>, <<"1", "g">>, <<"g", "\n">>, <<>>,
      Rep("g", EdgeNameMax), Rep("g", EdgeNameMax + 1) }

EdgeDescriptionSamples ==
    { ValidDescription, <<>>, Rep("d", EdgeDescriptionMax),
      Rep("d", EdgeDescriptionMax + 1) }

EdgeActionSamples ==
    { HANDOFF, PLAIN_ACTION, <<"j", "u", "m", "p">>, HANDOFF \o <<"\n">>,
      <<>> }

EdgeTargetSamples ==
    { <<"A">>, <<"Z">>, <<"A", "\n">>, <<>>, Rep("a", TargetAgentMax),
      Rep("a", TargetAgentMax + 1) }

BaseRequest ==
    [customer_id |-> <<"c", "1">>,
     name |-> <<"n">>,
     description |-> <<"d">>,
     agents |-> << [name |-> <<"A">>,
                    instructions |-> ValidInstructions,
                    on_enter_prompt |-> ValidPrompt,
                    tools |-> <<>>,
                    edges |-> << [name |-> <<"g", "o">>,
                                  description |-> ValidDescription,
                                  action |-> HANDOFF,
                                  target_agent |-> <<"A">>] >>] >>]

\* A further valid node of a resized list, named differently at every
\* position.
ExtraAgent(i) ==
    [name |-> Rep("x", i),
     instructions |-> ValidInstructions,
     on_enter_prompt |-> ValidPrompt,
     tools |-> <<>>,
     edges |-> <<>>]

\* The requests one sample away from req.
OneAway(req) ==
    { [req EXCEPT !.customer_id = v] : v \in CustomerIdSamples }
    \cup { [req EXCEPT !.name = v] : v \in CustomerNameSamples }
    \cup { [req EXCEPT !.description = v] : v \in CustomerDescriptionSamples }
    \cup (IF Len(req.agents) # 1 THEN {} ELSE
            { [req EXCEPT !.agents[1].name = v] : v \in AgentNameSamples }
            \cup { [req EXCEPT !.agents[1].instructions = v] :
                    v \in InstructionsSamples }
            \cup { [req EXCEPT !.agents[1].on_enter_prompt = v] :
                    v \in OnEnterPromptSamples }
            \cup { [req EXCEPT !.agents[1].edges[1].name = v] :
                    v \in EdgeNameSamples }
            \cup { [req EXCEPT !.agents[1].edges[1].description = v] :
                    v \in EdgeDescriptionSamples }
            \cup { [req EXCEPT !.agents[1].edges[1].action = v] :
                    v \in EdgeActionSamples }
            \cup { [req EXCEPT !.agents[1].edges[1].target_agent = v] :
                    v \in EdgeTargetSamples }
            \cup { [req EXCEPT !.agents =
                        [i \in 1..n |-> IF i = 1 THEN req.agents[1]
                                        ELSE ExtraAgent(i)]] :
                    n \in {0, AgentsMax, AgentsMax + 1} })

\* The requests at most n samples away from the requests of a set.
RECURSIVE Vary(_, _)
Vary(reqs, n) ==
    IF n = 0 THEN reqs
    ELSE Vary(reqs \cup UNION { OneAway(r) : r \in reqs }, n - 1)

InitFields ==
    /\ SessionsIdle
    /\ request \in Vary({BaseRequest}, MaxOdd)
    /\ built = None
    /\ reparsed = None
    /\ ApiIdle

NextFields ==
    \/ Construct
    \/ RoundTrip

SpecFields == InitFields /\ [][NextFields]_vars

(***************************************************************************)
(* The database (src/database/connection.py) and the API                   *)
(* (src/api/simple_fastapi.py).  The collection has a unique index on      *)
(* customer_id (init_database).  A request body is parsed into a           *)
(* CustomerSchema before the handler runs; a body that fails is answered   *)
(* 422 and the handler is not called.                                      *)
(***************************************************************************)
MaxCalls == 3

DefaultId == <<"c", "u", "s", "t", "o", "m", "e", "r", "_", "1">>
ProtectedIds ==
    { DefaultId, <<"c", "u", "s", "t", "o", "m", "e", "r", "_", "2">> }

\* The customer ids of the requests' paths and queries: two that bodies
\* carry and one that no body carries.
PathIds == { <<"c", "1">>, DefaultId, <<"z">> }

Node(n, instructions, edges) ==
    [name |-> n, instructions |-> instructions, on_enter_prompt |-> ValidPrompt,
     tools |-> <<>>, edges |-> edges]

Edge(n, t) ==
    [name |-> n, description |-> ValidDescription, action |-> HANDOFF,
     target_agent |-> t]

GraphOne == << Node(<<"A">>, ValidInstructions, << Edge(<<"g", "o">>, <<"A">>) >>) >>
GraphTwo ==
    << Node(<<"B">>, ValidInstructions, << Edge(<<"g", "o">>, <<"A">>) >>),
       Node(<<"A">>, ValidInstructions, << >>) >>
GraphDangling ==
    << Node(<<"A">>, ValidInstructions, << Edge(<<"g", "o">>, <<"C">>) >>) >>
GraphPadded == << Node(<<"A">>, Rep(" ", InstructionsMin), << >>) >>

Body(id, agents) ==
    [customer_id |-> id, name |-> <<"n">>, description |-> <<"d">>,
     agents |-> agents]

\* The request bodies: two versions of one customer (its id written in two
\* cases), the default customer, a body that fails validation and a body
\* whose instructions are blank.
Bodies ==
    { Body(<<"c", "1">>, GraphOne), Body(<<"C", "1">>, GraphTwo),
      Body(DefaultId, GraphOne), Body(<<"c", "1">>, GraphDangling),
      Body(<<"c", "1">>, GraphPadded) }

\* collection.find_one({"customer_id": id})
find_one(coll, id) ==
    IF \E d \in coll : d.customer_id = id
    THEN CHOOSE d \in coll : d.customer_id = id
    ELSE None

\* An insert into a collection that has no unique index.
insert_one_unindexed(coll, doc) == [error |-> "", coll |-> coll \cup {doc}]

\* An insert that overwrites the stored document of the customer_id.
insert_one_replacing(coll, doc) ==
    [error |-> "",
     coll |-> { d \in coll : d.customer_id # doc.customer_id } \cup {doc}]

\* collection.insert_one(doc): the unique index refuses a second document
\* of a customer_id.
insert_one(coll, doc) ==
    IF find_one(coll, doc.customer_id) # None
    THEN [error |-> "DuplicateKeyError", coll |-> coll]
    ELSE [error |-> "", coll |-> coll \cup {doc}]

\* A replacement that writes the new document node by node: after its first
\* write the stored document has the first node of the new list and the
\* other nodes of the old one.
replace_one_by_parts(coll, id, doc) ==
    LET old == find_one(coll, id)
    IN IF old = None THEN [matched_count |-> 0, error |-> "", coll |-> coll]
       ELSE [matched_count |-> 1, error |-> "",
             coll |-> (coll \ {old}) \cup
                { [doc EXCEPT !.agents =
                    <<doc.agents[1]>> \o SubSeq(old.agents, 2, Len(old.agents))] }]

\* collection.replace_one({"customer_id": id}, doc): the whole matched
\* document is replaced in one write; the unique index refuses a document
\* whose customer_id another document carries.
replace_one(coll, id, doc) ==
    LET old == find_one(coll, id)
    IN IF old = None THEN [matched_count |-> 0, error |-> "", coll |-> coll]
       ELSE IF find_one(coll \ {old}, doc.customer_id) # None
       THEN [matched_count |-> 0, error |-> "DuplicateKeyError", coll |-> coll]
       ELSE [matched_count |-> 1, error |-> "", coll |-> (coll \ {old}) \cup {doc}]

\* collection.delete_one({"customer_id": id})
delete_one(coll, id) ==
    LET old == find_one(coll, id)
    IN IF old = None THEN [deleted_count |-> 0, coll |-> coll]
       ELSE [deleted_count |-> 1, coll |-> coll \ {old}]

Response(op, status, detail) == [op |-> op, status |-> status, detail |-> detail]

\* `except ValueError` of an API handler: the status it answers with.
\* Every other exception is answered 500.
OnValueError(op) == IF op = "create" THEN 400 ELSE 404

\* `raise HTTPException(404)` inside `try: ... except Exception as e: raise
\* HTTPException(500)`: HTTPException is an Exception, so the handler's own
\* 404 is caught and answered as 500.
RaisedInsideTry(status) == 500

\* The collection after scripts/populate_database.py: the default customer.
Populated == { model_dump(CustomerSchema(Body(DefaultId, GraphOne)).value) }

InitStore ==
    /\ agent_schema = [s \in Sessions |-> <<>>]
    /\ command = [s \in Sessions |-> <<>>]
    /\ pc = [s \in Sessions |-> "absent"]
    /\ agent_classes = [s \in Sessions |-> None]
    /\ active = [s \in Sessions |-> {}]
    /\ entered = [s \in Sessions |-> <<>>]
    /\ result = [s \in Sessions |-> None]
    /\ record = [s \in Sessions |-> None]
    /\ created = [s \in Sessions |-> 0]
    /\ request = None
    /\ built = None
    /\ reparsed = None
    /\ store \in { {}, Populated }
    /\ accepted = store
    /\ pending = <<>>
    /\ response = None
    /\ calls = 0
    /\ rooms = 0
    /\ startup_event

\* POST /customers, up to the find_one of DatabaseManager.create_customer.
ApiCreate(body) ==
    /\ calls < MaxCalls
    /\ calls' = calls + 1
    /\ LET customer == CustomerSchema(body)
       IN IF ~customer.ok
          THEN /\ response' = Response("create", 422, "validation")
               /\ UNCHANGED pending
          ELSE IF find_one(store, customer.value.customer_id) # None
          THEN /\ response' = Response("create", OnValueError("create"),
                                       "already exists")
               /\ UNCHANGED pending
          ELSE /\ pending' = Append(pending, model_dump(customer.value))
               /\ UNCHANGED response
    /\ UNCHANGED <<store, rooms, accepted>>
    /\ UNCHANGED session_vars
    /\ UNCHANGED schema_vars
    /\ UNCHANGED conn_vars

\* ... and from its insert_one on.
ApiCreateInsert(i) ==
    /\ i \in DOMAIN pending
    /\ LET done == insert_one(store, pending[i])
       IN IF done.error = "DuplicateKeyError"
          THEN /\ response' = Response("create", OnValueError("create"),
                                       "already exists")
               /\ UNCHANGED <<store, accepted>>
          ELSE /\ store' = done.coll
               /\ accepted' = accepted \cup {pending[i]}
               /\ response' = Response("create", 200, "created")
    /\ pending' = [k \in 1..(Len(pending) - 1) |->
                        IF k < i THEN pending[k] ELSE pending[k + 1]]
    /\ UNCHANGED <<calls, rooms>>
    /\ UNCHANGED session_vars
    /\ UNCHANGED schema_vars
    /\ UNCHANGED conn_vars

\* PUT /customers/{customer_id}
ApiUpdate(id, body) ==
    /\ calls < MaxCalls
    /\ calls' = calls + 1
    /\ LET customer == CustomerSchema(body)
       IN IF ~customer.ok
          THEN /\ response' = Response("update", 422, "validation")
               /\ UNCHANGED <<store, accepted>>
          ELSE LET doc == model_dump(customer.value)
                   done == replace_one(store, id, doc)
               IN IF done.error # ""
                  THEN /\ response' = Response("update", 500, "database error")
                       /\ UNCHANGED <<store, accepted>>
                  ELSE IF done.matched_count = 0
                  THEN /\ response' = Response("update", OnValueError("update"),
                                               "not found")
                       /\ UNCHANGED <<store, accepted>>
                  ELSE /\ store' = done.coll
                       /\ accepted' = accepted \cup {doc}
                       /\ response' = Response("update", 200, "updated")
    /\ UNCHANGED <<pending, rooms>>
    /\ UNCHANGED session_vars
    /\ UNCHANGED schema_vars
    /\ UNCHANGED conn_vars

\* DELETE /customers/{customer_id}
ApiDelete(id) ==
    /\ calls < MaxCalls
    /\ calls' = calls + 1
    /\ IF id \in ProtectedIds
       THEN /\ response' = Response("delete", OnValueError("delete"),
                                    "cannot delete default")
            /\ UNCHANGED store
       ELSE LET done == delete_one(store, id)
            IN IF done.deleted_count = 0
               THEN /\ response' = Response("delete", OnValueError("delete"),
                                            "not found")
                    /\ UNCHANGED store
               ELSE /\ store' = done.coll
                    /\ response' = Response("delete", 200, "deleted")
    /\ UNCHANGED <<pending, rooms, accepted>>
    /\ UNCHANGED session_vars
    /\ UNCHANGED schema_vars
    /\ UNCHANGED conn_vars

\* GET /customers/{customer_id}
ApiGetCustomer(id) ==
    /\ calls < MaxCalls
    /\ calls' = calls + 1
    /\ response' = IF find_one(store, id) = None
                   THEN Response("get", RaisedInsideTry(404), "database error")
                   ELSE Response("get", 200, "found")
    /\ UNCHANGED <<store, pending, rooms, accepted>>
    /\ UNCHANGED session_vars
    /\ UNCHANGED schema_vars
    /\ UNCHANGED conn_vars

\* GET /start-session?customer_id=id: when the customer is stored, a room is
\* created and the start command is written under the key of a new session.
ApiStartSession(s, id) ==
    /\ calls < MaxCalls
    /\ calls' = calls + 1
    /\ pc[s] = "absent"
    /\ IF find_one(store, id) = None
       THEN /\ response' = Response("start-session", RaisedInsideTry(404),
                                    "database error")
            /\ UNCHANGED <<rooms, command, pc>>
       ELSE /\ rooms' = rooms + 1
            /\ command' = [command EXCEPT ![s] =
                    [action |-> <<"start_session">>, customer_id |-> id]]
            /\ pc' = [pc EXCEPT ![s] = "joined"]
            /\ response' = Response("start-session", 200, "command_sent")
    /\ UNCHANGED <<store, pending, accepted>>
    /\ UNCHANGED <<agent_schema, agent_classes, active, entered, result,
                   record, created>>
    /\ UNCHANGED schema_vars
    /\ UNCHANGED conn_vars

\* entrypoint, line 84: db_manager.get_customer(command["customer_id"]), up
\* to its first find_one.
GetCustomer(s) ==
    /\ pc[s] = "joined"
    /\ LET customer == find_one(store, command[s].customer_id)
       IN IF customer # None
          THEN /\ agent_schema' = [agent_schema EXCEPT ![s] = customer.agents]
               /\ pc' = [pc EXCEPT ![s] = "waiting"]
          ELSE /\ pc' = [pc EXCEPT ![s] = "default"]
               /\ UNCHANGED agent_schema
    /\ UNCHANGED <<command, agent_classes, active, entered, result, record,
                   created>>
    /\ UNCHANGED schema_vars
    /\ UNCHANGED api_vars

\* ... its second find_one, of the default customer.
GetDefault(s) ==
    /\ pc[s] = "default"
    /\ LET default_customer == find_one(store, DefaultId)
       IN agent_schema' = [agent_schema EXCEPT ![s] =
            IF default_customer # None THEN default_customer.agents ELSE <<>>]
    /\ pc' = [pc EXCEPT ![s] = "waiting"]
    /\ UNCHANGED <<command, agent_classes, active, entered, result, record,
                   created>>
    /\ UNCHANGED schema_vars
    /\ UNCHANGED api_vars

\* ... and its `except Exception: return []` when a find_one fails.
GetCustomerFails(s) ==
    /\ pc[s] \in {"joined", "default"}
    /\ agent_schema' = [agent_schema EXCEPT ![s] = <<>>]
    /\ pc' = [pc EXCEPT ![s] = "waiting"]
    /\ UNCHANGED <<command, agent_classes, active, entered, result, record,
                   created>>
    /\ UNCHANGED schema_vars
    /\ UNCHANGED api_vars

NextStore ==
    \/ \E body \in Bodies : ApiCreate(body)
    \/ \E i \in 1..MaxCalls : ApiCreateInsert(i)
    \/ \E id \in PathIds, body \in Bodies : ApiUpdate(id, body)
    \/ \E id \in PathIds : ApiDelete(id)
    \/ \E id \in PathIds : ApiGetCustomer(id)
    \/ \E s \in Sessions, id \in PathIds : ApiStartSession(s, id)
    \/ \E s \in Sessions :
        \/ GetCustomer(s)
        \/ GetDefault(s)
        \/ GetCustomerFails(s)
        \/ EntrypointRaises(s)
        \/ EntrypointStarts(s)

SpecStore == InitStore /\ [][NextStore]_vars

(***************************************************************************)
(* DatabaseManager: connect, init_database, get_customer, close            *)
(***************************************************************************)
\* The largest max_retries a manager is constructed with.
MaxRetries == 3

\* What `await self.client.admin.command('ping')` gives: it returns, or it
\* raises one of the two exceptions connect() catches, or another one.
PingOutcomes ==
    {"ok", "ConnectionFailure", "ServerSelectionTimeoutError", "OperationFailure"}

\* except (ConnectionFailure, ServerSelectionTimeoutError)
Caught == {"ConnectionFailure", "ServerSelectionTimeoutError"}

\* A retry test that lets the last attempt sleep too.
RetryAfterLast(n, retries) == n < retries

\* if attempt < self.max_retries - 1
RetryAllowed(n, retries) == n < retries - 1

\* asyncio.sleep(2 ** attempt)
Backoff(n) == 2 ^ n

\* A lookup that reports a missing customer instead of using the default.
get_customer_strict(coll, docs, customer_id, db_error) ==
    IF coll = None
    THEN MethodResult("get_customer", customer_id, "", "ConnectionError", <<>>)
    ELSE IF db_error \/ find_one(docs, customer_id) = None
    THEN MethodResult("get_customer", customer_id, "list", "", <<>>)
    ELSE MethodResult("get_customer", customer_id, "list", "",
                      find_one(docs, customer_id).agents)

\* DatabaseManager.get_customer(customer_id) on the collection handle coll
\* whose documents are docs; db_error: a find_one raises.
get_customer(coll, docs, customer_id, db_error) ==
    IF coll = None
    THEN MethodResult("get_customer", customer_id, "", "ConnectionError", <<>>)
    ELSE IF db_error
    THEN MethodResult("get_customer", customer_id, "list", "", <<>>)
    ELSE LET customer == find_one(docs, customer_id)
             default_customer == find_one(docs, DefaultId)
         IN IF customer # None
            THEN MethodResult("get_customer", customer_id, "list", "",
                              customer.agents)
            ELSE MethodResult("get_customer", customer_id, "list", "",
                    IF default_customer # None THEN default_customer.agents
                    ELSE <<>>)

\* The collections the manager is connected to: empty, the default customer
\* alone, and the default customer with another one.
ConnStores ==
    { {}, Populated,
      Populated \cup { model_dump(CustomerSchema(Body(<<"c", "1">>, GraphTwo)).value) } }

InitConn ==
    /\ SessionsIdle
    /\ request = None
    /\ built = None
    /\ reparsed = None
    /\ store \in ConnStores
    /\ accepted = store
    /\ pending = <<>>
    /\ response = None
    /\ calls = 0
    /\ rooms = 0
    /\ \E n \in 0..MaxRetries : DatabaseManager(n)

\* connect() up to its loop, run by who: with range(max_retries) empty the
\* loop is skipped and connect() returns False.
StartConnect(who) ==
    /\ caller' = who
    /\ attempt' = 0
    /\ pings' = <<>>
    /\ sleeps' = <<>>
    /\ IF max_retries > 0
       THEN /\ conn_pc' = "attempt"
            /\ UNCHANGED conn_result
       ELSE IF who = "connect"
       THEN /\ conn_pc' = "idle"
            /\ conn_result' = MethodResult("connect", <<>>, "False", "", <<>>)
       ELSE /\ conn_pc' = "index"
            /\ UNCHANGED conn_result
    /\ UNCHANGED <<client, db, collection, max_retries>>

\* await db_manager.connect()
Connect ==
    /\ conn_pc = "idle"
    /\ StartConnect("connect")
    /\ UNCHANGED <<store, pending, response, calls, rooms, accepted>>
    /\ UNCHANGED session_vars
    /\ UNCHANGED schema_vars

\* connect() has finished with the value returned or the exception raised:
\* its direct caller gets either, init_database goes on to its try block
\* after a return and lets an exception through.
ConnectEnds(returned, raised) ==
    IF caller = "connect" \/ raised # ""
    THEN /\ conn_pc' = "idle"
         /\ conn_result' = MethodResult(caller, <<>>, returned, raised, <<>>)
    ELSE /\ conn_pc' = "index"
         /\ UNCHANGED conn_result

\* One turn of the loop of connect(): a new client, the ping, and what
\* follows its outcome.
ConnectAttempt(outcome) ==
    /\ conn_pc = "attempt"
    /\ client' = Client
    /\ pings' = Append(pings, outcome)
    /\ IF outcome = "ok"
       THEN /\ db' = Database
            /\ collection' = Collection
            /\ ConnectEnds("True", "")
            /\ UNCHANGED <<attempt, sleeps>>
       ELSE IF outcome \in Caught
       THEN /\ UNCHANGED <<db, collection>>
            /\ IF RetryAllowed(attempt, max_retries)
               THEN /\ sleeps' = Append(sleeps, Backoff(attempt))
                    /\ attempt' = attempt + 1
                    /\ IF attempt + 1 < max_retries
                       THEN UNCHANGED <<conn_pc, conn_result>>
                       ELSE ConnectEnds("False", "")
               ELSE /\ ConnectEnds("", "ConnectionError")
                    /\ UNCHANGED <<attempt, sleeps>>
       ELSE /\ ConnectEnds("", outcome)
            /\ UNCHANGED <<db, collection, attempt, sleeps>>
    /\ UNCHANGED <<max_retries, caller>>
    /\ UNCHANGED <<store, pending, response, calls, rooms, accepted>>
    /\ UNCHANGED session_vars
    /\ UNCHANGED schema_vars

\* await db_manager.init_database(), up to its try block.
InitDatabase ==
    /\ conn_pc = "idle"
    /\ IF client = None
       THEN StartConnect("init_database")
       ELSE /\ conn_pc' = "index"
            /\ caller' = "init_database"
            /\ UNCHANGED <<client, db, collection, max_retries, attempt, pings,
                           sleeps, conn_result>>
    /\ UNCHANGED <<store, pending, response, calls, rooms, accepted>>
    /\ UNCHANGED session_vars
    /\ UNCHANGED schema_vars

\* ... and its try block: self.collection.create_index(...) and
\* count_documents; every exception is logged and raised again.
CreateIndex(db_error) ==
    /\ conn_pc = "index"
    /\ conn_pc' = "idle"
    /\ conn_result' =
        IF collection = None
        THEN MethodResult("init_database", <<>>, "", "AttributeError", <<>>)
        ELSE IF db_error
        THEN MethodResult("init_database", <<>>, "", "PyMongoError", <<>>)
        ELSE MethodResult("init_database", <<>>, "None", "", <<>>)
    /\ UNCHANGED <<client, db, collection, max_retries, attempt, caller, pings,
                   sleeps>>
    /\ UNCHANGED <<store, pending, response, calls, rooms, accepted>>
    /\ UNCHANGED session_vars
    /\ UNCHANGED schema_vars

\* await db_manager.close()
Close ==
    /\ conn_pc = "idle"
    /\ IF client # None
       THEN /\ client' = None
            /\ db' = None
            /\ collection' = None
       ELSE UNCHANGED <<client, db, collection>>
    /\ conn_result' = MethodResult("close", <<>>, "None", "", <<>>)
    /\ UNCHANGED <<max_retries, attempt, conn_pc, caller, pings, sleeps>>
    /\ UNCHANGED <<store, pending, response, calls, rooms, accepted>>
    /\ UNCHANGED session_vars
    /\ UNCHANGED schema_vars

\* await db_manager.get_customer(customer_id)
ManagerGetCustomer(customer_id, db_error) ==
    /\ conn_pc = "idle"
    /\ conn_result' = get_customer(collection, store, customer_id, db_error)
    /\ UNCHANGED <<client, db, collection, max_retries, attempt, conn_pc,
                   caller, pings, sleeps>>
    /\ UNCHANGED <<store, pending, response, calls, rooms, accepted>>
    /\ UNCHANGED session_vars
    /\ UNCHANGED schema_vars

NextConn ==
    \/ Connect
    \/ \E outcome \in PingOutcomes : ConnectAttempt(outcome)
    \/ InitDatabase
    \/ \E db_error \in BOOLEAN : CreateIndex(db_error)
    \/ Close
    \/ \E id \in PathIds, db_error \in BOOLEAN : ManagerGetCustomer(id, db_error)

SpecConn == InitConn /\ [][NextConn]_vars

\* The ping answers within serverSelectionTimeoutMS, a sleep ends and the
\* index request is answered: a method that was called goes on.
SpecConnLive ==
    /\ SpecConn
    /\ WF_vars(\E outcome \in PingOutcomes : ConnectAttempt(outcome))
    /\ WF_vars(\E db_error \in BOOLEAN : CreateIndex(db_error))

(***************************************************************************)
(* Helpers of the properties                                               *)
(***************************************************************************)
\* piece occurs in text
Contains(text, piece) ==
    \E i \in 1..(Len(text) - Len(piece) + 1) :
        SubSeq(text, i, i + Len(piece) - 1) = piece

\* The last definition of the list that carries name n.
LastDef(list, n) ==
    LET at == { i \in DOMAIN list : list[i].name = n }
    IN list[CHOOSE i \in at : \A j \in at : j <= i]

BuiltFrom(instance, def) ==
    /\ instance.name = def.name
    /\ instance.instructions = def.instructions
    /\ instance._on_enter_prompt = def.on_enter_prompt

UniqueNames(list) ==
    \A i, j \in DOMAIN list : list[i].name = list[j].name => i = j

\* The handoff edges declared on the definition the instance was built from.
DeclaredTargets(list, instance) ==
    UNION { { list[i].edges[k].target_agent :
                k \in { e \in DOMAIN list[i].edges :
                            list[i].edges[e].action = HANDOFF } } :
            i \in { j \in DOMAIN list : BuiltFrom(instance, list[j]) } }

(***************************************************************************)
(* Properties of the dispatcher                                            *)
(***************************************************************************)
\* C1: once a session has started, exactly one node is active in every
\* state, whatever handoff invocations (successful or failing) were made.
C1_ExactlyOneActive ==
    \A s \in Sessions : pc[s] = "started" => Cardinality(active[s]) = 1

\* C1 witness: a started session after a successful handoff followed by a
\* failing one.
C1_Witness ==
    \E s \in Sessions :
        /\ pc[s] = "started"
        /\ created[s] >= 2
        /\ result[s] # None
        /\ result[s].type = "str"
        /\ Cardinality(active[s]) = 1


\* The two-node cycle A -> B, B -> A.
IsCycleAB(list) ==
    /\ Len(list) = 2
    /\ list[1].name = <<"A">> /\ list[2].name = <<"B">>
    /\ Len(list[1].edges) = 1 /\ Len(list[2].edges) = 1
    /\ list[1].edges[1].action = HANDOFF /\ list[1].edges[1].target_agent = <<"B">>
    /\ list[2].edges[1].action = HANDOFF /\ list[2].edges[1].target_agent = <<"A">>

\* The handoff tools of the running node.
HandoffTools(s) ==
    { tk \in UNION { { <<node, k>> : k \in DOMAIN node.tools } : node \in active[s] } :
        tk[1].tools[tk[2]].type = "function_tool" }

\* C2: a handoff whose target is in the session's table makes a node built
\* from the target's definition the running node and says the target's entry
\* prompt exactly once in the same step (so before any further invocation);
\* in the cycle A -> B, B -> A the running nodes are A, B, A, ...
C2_SuccessfulHandoff ==
    /\ [][\A s \in Sessions : \A tk \in HandoffTools(s) :
            LET target == tk[1].tools[tk[2]].target
            IN (Invoke(s, tk[2]) /\ ~TargetMissing(agent_classes[s], target))
                => /\ Cardinality(active'[s]) = 1
                   /\ \A node \in active'[s] :
                        /\ BuiltFrom(node, LastDef(agent_schema[s], target))
                        /\ node \notin active[s]
                   /\ entered'[s] =
                        << LastDef(agent_schema[s], target).on_enter_prompt >>
                   /\ Len(entered'[s]) = 1
                   /\ pc'[s] = "started"]_vars
    /\ [](\A s \in Sessions :
            (pc[s] = "started" /\ IsCycleAB(agent_schema[s]))
                => \A node \in active[s] :
                    node.name = IF created[s] % 2 = 1 THEN <<"A">> ELSE <<"B">>)

\* C2 witness: the cycle after start, A's edge and B's edge: A runs again and
\* its prompt is the one said since the activation.
C2_Witness ==
    \E s \in Sessions :
        /\ pc[s] = "started"
        /\ IsCycleAB(agent_schema[s])
        /\ created[s] = 3
        /\ \E node \in active[s] : node.name = <<"A">> /\ node.id = 3
        /\ entered[s] = << agent_schema[s][1].on_enter_prompt >>

\* C3: a handoff whose target is absent from the table (or is a None slot)
\* returns an error string that carries the target name; nothing is raised,
\* no instance is built and the running node stays.
C3_FailedHandoffRecoverable ==
    [][\A s \in Sessions : \A tk \in HandoffTools(s) :
        LET target == tk[1].tools[tk[2]].target
        IN (Invoke(s, tk[2]) /\ TargetMissing(agent_classes[s], target))
            => /\ result'[s].type = "str"
               /\ Contains(result'[s].text, target)
               /\ created'[s] = created[s]
               /\ active'[s] = active[s]
               /\ entered'[s] = entered[s]
               /\ pc'[s] = "started"]_vars

\* C3 witness: a started session whose last invocation failed on a target
\* that no definition of the list names.
C3_Witness ==
    \E s \in Sessions :
        /\ pc[s] = "started"
        /\ result[s] # None
        /\ result[s].type = "str"
        /\ \E tk \in HandoffTools(s) :
            /\ TargetMissing(agent_classes[s], tk[1].tools[tk[2]].target)
            /\ result[s] = NotFoundError(tk[1].tools[tk[2]].target)
        /\ Cardinality(active[s]) = 1

\* C4: the running node changes only at session start, to the node stored
\* under the first definition's name, and then only to the target of a
\* handoff edge declared on the definition of the node that was running.
C4_TransitionsFollowEdges ==
    [][\A s \in Sessions :
        active'[s] # active[s]
            => IF pc[s] = "waiting"
               THEN \A next \in active'[s] :
                        next.name = agent_schema[s][1].name
               ELSE /\ pc[s] = "started"
                    /\ \A next \in active'[s] : \E node \in active[s] :
                        next.name \in DeclaredTargets(agent_schema[s], node)]_vars

\* C4 witness: a session that has made two handoffs.
C4_Witness ==
    \E s \in Sessions :
        /\ pc[s] = "started"
        /\ created[s] = 3
        /\ record[s] # None
        /\ Len(agent_schema[s]) = 2

DanglingTargets(list) ==
    { list[p[1]].edges[p[2]].target_agent : p \in EdgePlaces(list) }
        \ { list[i].name : i \in DOMAIN list }

\* The first of them, agents in order and the edges of an agent in order.
RECURSIVE FirstDangling(_, _, _)
FirstDangling(list, i, k) ==
    IF i > Len(list) THEN None
    ELSE IF k > Len(list[i].edges) THEN FirstDangling(list, i + 1, 1)
    ELSE IF list[i].edges[k].target_agent \in DanglingTargets(list)
         THEN list[i].edges[k].target_agent
         ELSE FirstDangling(list, i, k + 1)

ItemsValid(list) == \A i \in DOMAIN list : AgentConfigErrors(list[i], i) = {}

\* An error names a target when the target's text occurs in its message.
\* The fixed parts of a message are one element each, so only a name put
\* into the message can occur in it.
NamesTarget(errors, target) == \E e \in errors : Contains(e.msg, target)

\* C6 as stated: constructing a graph with a dangling edge target always
\* fails with an error that names a missing target.
C6_DanglingAlwaysNamed ==
    (built # None /\ DanglingTargets(request.agents) # {}) =>
        /\ ~built.ok
        /\ \E t \in DanglingTargets(request.agents) :
                NamesTarget(built.errors, t)

\* C6, amended: constructing a graph with a dangling edge target always
\* fails and never yields an object; when every agent item is valid, the
\* list has 1..20 agents and the agent names are unique, the only error is
\* the one of the agents field that names the first dangling target in list
\* order.
C6_DanglingTargetFails ==
    (built # None /\ DanglingTargets(request.agents) # {}) =>
        /\ ~built.ok
        /\ (/\ ItemsValid(request.agents)
            /\ Len(request.agents) \in 1..AgentsMax
            /\ UniqueNames(request.agents))
           => built.errors =
                { Error("agents", 0, 0, "value_error",
                        <<"Edge target \"">>
                            \o FirstDangling(request.agents, 1, 1)
                            \o <<"\" not found in agent list">>) }

\* Two different dangling targets on valid, uniquely named agents; the
\* construction failed naming the first.
C6_Witness ==
    /\ built # None
    /\ Cardinality(DanglingTargets(request.agents)) = 2
    /\ ItemsValid(request.agents)
    /\ UniqueNames(request.agents)
    /\ ~built.ok
    /\ NamesTarget(built.errors, FirstDangling(request.agents, 1, 1))

\* C7: constructing a graph in which two agents carry the same name always
\* fails with a validation error, wherever the two are in the list.
C7_DuplicateNamesFail ==
    (built # None /\ ~UniqueNames(request.agents)) =>
        /\ ~built.ok
        /\ built.errors # {}

\* The same name first and last with another name between them.
C7_Witness ==
    /\ built # None
    /\ Len(request.agents) = 3
    /\ request.agents[1].name = request.agents[3].name
    /\ request.agents[1].name # request.agents[2].name
    /\ ItemsValid(request.agents)
    /\ ~built.ok
    /\ \E e \in built.errors :
            e.msg = <<"Agent names must be unique within a customer">>

\* C8 as stated: no constructed graph has an agent with two edges of the
\* same name.
C8_EdgeNamesUnique ==
    (built # None /\ built.ok) =>
        \A i \in DOMAIN built.value.agents :
            \A k, l \in DOMAIN built.value.agents[i].edges :
                built.value.agents[i].edges[k].name =
                    built.value.agents[i].edges[l].name => k = l

\* C9 as stated: constructing from the serialized form of a constructed
\* graph succeeds and yields an equal graph.
C9_RoundTrip ==
    reparsed # None => (reparsed.ok /\ reparsed.value = built.value)

\* C10 as stated: the returned object of a successful construction is within
\* the declared bounds of every field.
C10_DeclaredBounds ==
    (built # None /\ built.ok) =>
        /\ Len(built.value.agents) \in 1..AgentsMax
        /\ \A i \in DOMAIN built.value.agents :
            LET a == built.value.agents[i]
            IN /\ Len(a.instructions) \in InstructionsMin..InstructionsMax
               /\ Len(a.on_enter_prompt) \in 1..OnEnterPromptMax
               /\ Len(a.name) \in 1..AgentNameMax
               /\ \A k \in DOMAIN a.edges :
                    /\ Len(a.edges[k].name) \in 1..EdgeNameMax
                    /\ Len(a.edges[k].description) \in 1..EdgeDescriptionMax
                    /\ a.edges[k].action \in {HANDOFF, PLAIN_ACTION}

\* A text of letters, digits and underscores only, starting with a letter
\* (or, for a tool, an underscore).
IsAgentIdentifier(v) ==
    /\ Len(v) >= 1
    /\ v[1] \in Letters
    /\ \A i \in 2..Len(v) : v[i] \in Letters \cup Digits \cup {"_"}

IsToolIdentifier(v) ==
    /\ Len(v) >= 1
    /\ v[1] \in Letters \cup {"_"}
    /\ \A i \in 2..Len(v) : v[i] \in Letters \cup Digits \cup {"_"}

\* C11 as stated: every agent name and every edge name of a constructed
\* graph is an identifier; a name with any other character, a trailing line
\* break included, fails construction.
C11_NamesAreIdentifiers ==
    (built # None /\ built.ok) =>
        \A i \in DOMAIN built.value.agents :
            /\ IsAgentIdentifier(built.value.agents[i].name)
            /\ \A k \in DOMAIN built.value.agents[i].edges :
                    IsToolIdentifier(built.value.agents[i].edges[k].name)

(***************************************************************************)
(* Properties of the database and the API                                  *)
(***************************************************************************)
\* C12 as stated: a construction gives a graph that satisfies every
\* validation rule or no object at all, so every document handed to the
\* database passes validation; and a create or update request whose body
\* fails validation leaves the stored graphs unchanged.
C12_AllOrNothing ==
    [][ /\ \A d \in store' \cup Range(pending') : CustomerSchema(d).ok
        /\ \A body \in Bodies : ~CustomerSchema(body).ok =>
            /\ ApiCreate(body) => (store' = store /\ pending' = pending)
            /\ \A id \in PathIds : ApiUpdate(id, body) => store' = store
      ]_vars

(***************************************************************************)
(* Further properties of the dispatcher                                    *)
(***************************************************************************)
\* C13 as stated: the tools list of every class of the table has exactly
\* one callable tool per edge of the definition it was built from, in
\* order and under the edge's name, whatever the action kind of the edge;
\* a definition without edges gives an empty tools list.
C13_CapabilityList ==
    \A s \in Sessions : agent_classes[s] # None =>
        \A n \in DOMAIN agent_classes[s] :
            LET cls == agent_classes[s][n]
                def == LastDef(agent_schema[s], n)
            IN /\ Len(cls.tools) = Len(def.edges)
               /\ \A k \in DOMAIN cls.tools :
                    /\ cls.tools[k].type = "function_tool"
                    /\ cls.tools[k].name = def.edges[k].name

\* The table, the running node, the said prompts and the instance count of
\* session s are the same before and after the step.
Untouched(s) ==
    /\ agent_classes'[s] = agent_classes[s]
    /\ active'[s] = active[s]
    /\ entered'[s] = entered[s]
    /\ created'[s] = created[s]
    /\ pc'[s] = pc[s]

\* C14: two sessions built from the same stored node list never run the
\* same node instance, and every step (the start of a session or one of its
\* handoffs) changes the table, the running node and the said prompts of
\* one session only: the other session's are left as they were.
C14_SessionIsolation ==
    /\ [](\A s, t \in Pair : s # t => active[s] \cap active[t] = {})
    /\ [][ \A s, t \in Pair : s # t => (Untouched(s) \/ Untouched(t)) ]_vars

\* Both sessions made a handoff and run a node of the same type with the
\* same number in their session.
C14_Witness ==
    /\ \A s \in Pair : pc[s] = "started" /\ created[s] >= 2
    /\ \E a \in active["s1"], b \in active["s2"] :
            a.name = b.name /\ a.id = b.id /\ a # b

\* C15 as stated: when the node list obtained for a session is empty, the
\* session ends refused by a check of the list, not by an exception that
\* nothing handles, and no node is active.
C15_ZeroNodeRefusal ==
    \A s \in Sessions :
        (agent_schema[s] = <<>> /\ pc[s] \in {"raised", "refused", "skipped", "started"}) =>
            /\ pc[s] = "refused"
            /\ active[s] = {}

\* C16: a create request for a customer_id that is stored (at its find_one
\* or, when another create got in between, at its insert_one) is answered
\* 400; an update or delete request for a customer_id that is not stored is
\* answered 404; each of them leaves the collection unchanged.
C16_PersistenceErrors ==
    [][ /\ \A body \in Bodies :
            (/\ ApiCreate(body)
             /\ CustomerSchema(body).ok
             /\ find_one(store, CustomerSchema(body).value.customer_id) # None)
            => (response'.status = 400 /\ store' = store)
        /\ \A i \in DOMAIN pending :
            (ApiCreateInsert(i) /\ find_one(store, pending[i].customer_id) # None)
            => (response'.status = 400 /\ store' = store)
        /\ \A id \in PathIds, body \in Bodies :
            (/\ ApiUpdate(id, body)
             /\ CustomerSchema(body).ok
             /\ find_one(store, id) = None)
            => (response'.status = 404 /\ store' = store)
        /\ \A id \in PathIds :
            (ApiDelete(id) /\ find_one(store, id) = None)
            => (response'.status = 404 /\ store' = store)
      ]_vars

\* A second create request of a stored customer_id was answered 400 and
\* the collection holds one document of that customer_id.
C16_Witness ==
    /\ calls = 2
    /\ pending = <<>>
    /\ response = Response("create", 400, "already exists")
    /\ accepted # Populated
    /\ accepted # {}
    /\ Cardinality({ d \in store : d.customer_id = <<"c", "1">> }) = 1

\* C17 as stated: GET /customers/{customer_id} and GET /start-session for a
\* customer_id that is not stored are answered 404, and start-session then
\* creates no room and writes no command.
C17_NotFoundIs404 ==
    [][ /\ \A id \in PathIds :
            (ApiGetCustomer(id) /\ find_one(store, id) = None)
            => response'.status = 404
        /\ \A s \in Sessions, id \in PathIds :
            (ApiStartSession(s, id) /\ find_one(store, id) = None)
            => (response'.status = 404 /\ rooms' = rooms /\ command' = command)
      ]_vars

\* C18: under every interleaving of API requests with session starts, the
\* node list a session loaded is empty (nothing was found) or is the whole
\* node list of one document handed to the database, stored under the
\* session's customer_id or the default one: never a part of one version
\* with a part of another.  Once a session has built its table, no request
\* changes its node list, its table or its running node.
C18_AtomicReplace ==
    /\ [](\A s \in Sessions :
            pc[s] \in {"waiting", "raised", "started"} =>
                \/ agent_schema[s] = <<>>
                \/ \E d \in accepted :
                    /\ d.agents = agent_schema[s]
                    /\ d.customer_id \in {command[s].customer_id, DefaultId})
    /\ [][ \A s \in Sessions :
            agent_classes[s] # None =>
                /\ agent_schema'[s] = agent_schema[s]
                /\ agent_classes'[s] = agent_classes[s]
                /\ active'[s] = active[s] ]_vars

\* A session started on one version of its customer's graph and the
\* collection now holds another version of it.
C18_Witness ==
    \E s \in Sessions :
        /\ pc[s] = "started"
        /\ agent_schema[s] # <<>>
        /\ active[s] # {}
        /\ \E d \in store :
            /\ d.customer_id = command[s].customer_id
            /\ d.agents # agent_schema[s]

\* C20 as stated: every handoff that resolves its target emits a record
\* whose source is the name of the node that owns the invoked edge (the
\* running node) and whose target is the edge's target.
C20_HandoffRecord ==
    [][\A s \in Sessions : \A tk \in HandoffTools(s) :
            LET target == tk[1].tools[tk[2]].target
            IN (Invoke(s, tk[2]) /\ ~TargetMissing(agent_classes[s], target))
                => /\ record'[s].source = tk[1].name
                   /\ record'[s].target = target]_vars

\* The names of the definitions of a list.
NamesOf(list) == { list[i].name : i \in DOMAIN list }

\* C21: the first pass registers every name of the list with an empty slot;
\* once the factory returned, every name has its class, and a handoff tool
\* whose target names a definition placed before, after or at its owner
\* resolves, when invoked, to a new instance of the class the table holds
\* for the target.
C21_CallTimeResolution ==
    /\ [](\A s \in Sessions :
            /\ DOMAIN FirstPass(agent_schema[s]) = NamesOf(agent_schema[s])
            /\ \A n \in NamesOf(agent_schema[s]) : FirstPass(agent_schema[s])[n] = None
            /\ agent_classes[s] # None =>
                /\ DOMAIN agent_classes[s] = NamesOf(agent_schema[s])
                /\ \A n \in DOMAIN agent_classes[s] : agent_classes[s][n] # None)
    /\ [][\A s \in Sessions : \A tk \in HandoffTools(s) :
            LET target == tk[1].tools[tk[2]].target
            IN (Invoke(s, tk[2]) /\ target \in NamesOf(agent_schema[s]))
                => /\ result'[s].type = "agent"
                   /\ result'[s].agent.name = agent_classes[s][target].name
                   /\ result'[s].agent.instructions =
                            agent_classes[s][target].instructions
                   /\ result'[s].agent.tools = agent_classes[s][target].tools
                   /\ active'[s] = {result'[s].agent}]_vars

\* A forward reference and a self-loop both resolved: the first node handed
\* off to the second, defined after it, and the second to itself.
C21_Witness ==
    \E s \in Sessions :
        /\ pc[s] = "started"
        /\ Len(agent_schema[s]) = 2
        /\ agent_schema[s][1].name = <<"A">>
        /\ agent_schema[s][2].name = <<"B">>
        /\ \E k \in DOMAIN agent_schema[s][2].edges :
            /\ agent_schema[s][2].edges[k].action = HANDOFF
            /\ agent_schema[s][2].edges[k].target_agent = <<"B">>
        /\ created[s] = 3
        /\ \E node \in active[s] : node.name = <<"B">> /\ node.id = 3

\* The node lists stored in docs under customer_id.
StoredLists(docs, customer_id) ==
    { d.agents : d \in { e \in docs : e.customer_id = customer_id } }

\* C22: get_customer(id) of a connected manager returns the list stored
\* under id when there is one, else the list stored under customer_1 when
\* there is one, else the empty list; when a find_one raises it returns the
\* empty list; it raises nothing. Without a collection it raises
\* ConnectionError.
C22_DefaultFallback ==
    [][\A id \in PathIds, db_error \in BOOLEAN :
        ManagerGetCustomer(id, db_error) =>
            LET got == conn_result'
            IN /\ got.op = "get_customer"
               /\ collection = None =>
                    got.raised = "ConnectionError"
               /\ collection # None =>
                    /\ got.raised = ""
                    /\ db_error => got.value = <<>>
                    /\ (~db_error /\ StoredLists(store, id) # {}) =>
                            got.value \in StoredLists(store, id)
                    /\ (~db_error /\ StoredLists(store, id) = {}
                            /\ StoredLists(store, DefaultId) # {}) =>
                            got.value \in StoredLists(store, DefaultId)
                    /\ (~db_error /\ StoredLists(store, id) = {}
                            /\ StoredLists(store, DefaultId) = {}) =>
                            got.value = <<>>]_vars

\* A connected manager was asked for a customer that is not stored and
\* returned the list of customer_1.
C22_Witness ==
    /\ collection # None
    /\ conn_result.op = "get_customer"
    /\ conn_result.arg = <<"z">>
    /\ StoredLists(store, <<"z">>) = {}
    /\ conn_result.raised = ""
    /\ conn_result.value # <<>>
    /\ conn_result.value \in StoredLists(store, DefaultId)

\* C23: the node list loaded for a session, when it holds a node, is the
\* list of a document that was stored under the customer_id of the
\* session's command.
C23_SessionBoundToCustomer ==
    \A s \in Sessions :
        (pc[s] \in {"waiting", "started"} /\ agent_schema[s] # <<>>) =>
            \E d \in accepted :
                /\ d.customer_id = command[s].customer_id
                /\ d.agents = agent_schema[s]

\* The customer ids under which documents are stored.
StoredIds(docs) == { d.customer_id : d \in docs }

\* C24: after an update of customer_id that was answered 200, the document
\* stored under customer_id holds the node list of the request's graph, and
\* the update changed neither the customer ids under which documents are
\* stored nor the number of documents.
C24_ReplaceKeepsKey ==
    [][\A id \in PathIds, body \in Bodies :
        (ApiUpdate(id, body) /\ response'.status = 200) =>
            /\ find_one(store', id) # None
            /\ find_one(store', id).agents = CustomerSchema(body).value.agents
            /\ StoredIds(store') = StoredIds(store)
            /\ Cardinality(store') = Cardinality(store)]_vars

\* C25: a delete of customer_1 or customer_2 is refused and leaves the
\* collection as it was, and no request removes a stored document of
\* customer_1 or customer_2 from the collection.
C25_DefaultsProtected ==
    [][/\ \A id \in PathIds \cap ProtectedIds :
            ApiDelete(id) => (store' = store /\ response'.status # 200)
       /\ \A id \in ProtectedIds :
            id \in StoredIds(store) => id \in StoredIds(store')]_vars

\* C26: when the insert of a create request succeeded, the find_one that
\* get_customer, GET /customers/X and start-session run with the customer_id
\* X of the request body, for every body the stored document was made from,
\* finds that document.
C26_CreateThenLookup ==
    [][\A i \in 1..MaxCalls :
        (ApiCreateInsert(i) /\ response'.status = 200) =>
            \A body \in Bodies :
                (/\ CustomerSchema(body).ok
                 /\ model_dump(CustomerSchema(body).value) = pending[i]) =>
                    find_one(store', body.customer_id) = pending[i]]_vars

\* C27: no two stored documents carry one customer_id; of the create
\* requests that passed their find_one, the insert of one whose customer_id
\* is not stored succeeds and stores its document, and the insert of every
\* one whose customer_id was stored meanwhile is refused with "already
\* exists" and stores nothing.
C27_UniqueUnderConcurrency ==
    /\ [](\A d1 \in store, d2 \in store :
            d1.customer_id = d2.customer_id => d1 = d2)
    /\ [][\A i \in 1..MaxCalls :
            ApiCreateInsert(i) =>
                IF pending[i].customer_id \in StoredIds(store)
                THEN /\ response' = Response("create", 400, "already exists")
                     /\ store' = store
                ELSE /\ response'.status = 200
                     /\ store' = store \cup {pending[i]}]_vars

\* Two create requests of one customer_id passed their find_one; the insert
\* of one succeeded and the other is still to insert.
C27_Witness ==
    /\ response = Response("create", 200, "created")
    /\ Len(pending) = 1
    /\ pending[1].customer_id = <<"c", "1">>
    /\ \E d \in store : d.customer_id = <<"c", "1">> /\ d # pending[1]

\* C28: whenever no method of the manager is running, client is set
\* exactly when db and collection are set; init_database never used a
\* collection that is None; and after a connect() that raised
\* ConnectionError the manager has no client.
C28_ConnectionState ==
    conn_pc = "idle" =>
        /\ (client # None) <=> (db # None /\ collection # None)
        /\ ~(conn_result.op = "init_database"
                /\ conn_result.raised = "AttributeError")
        /\ conn_result.raised = "ConnectionError"
                /\ conn_result.op \in {"connect", "init_database"}
            => client = None

\* C29: a connect() pings at most max_retries times and ends; every ping
\* but its last raised ConnectionFailure or ServerSelectionTimeoutError and
\* was followed by a sleep, and its last ping by none; it returns True
\* exactly when its last ping succeeded, raises ConnectionError only after
\* max_retries failed pings, and returns False only when max_retries is 0.
C29_BoundedRetry ==
    /\ [](/\ Len(pings) <= max_retries
          /\ \A k \in DOMAIN pings : k < Len(pings) => pings[k] \in Caught
          /\ \A k \in DOMAIN sleeps : sleeps[k] > 0
          /\ conn_pc = "attempt" =>
                /\ Len(pings) < max_retries
                /\ Len(sleeps) = Len(pings)
                /\ \A k \in DOMAIN pings : pings[k] \in Caught
          /\ (conn_pc = "idle" /\ conn_result.op \in {"connect", "init_database"}) =>
                /\ conn_result.returned = "True" =>
                        /\ pings # <<>>
                        /\ pings[Len(pings)] = "ok"
                        /\ Len(sleeps) = Len(pings) - 1
                /\ (pings # <<>> /\ pings[Len(pings)] = "ok"
                        /\ conn_result.op = "connect") =>
                        conn_result.returned = "True"
                /\ conn_result.raised = "ConnectionError" =>
                        /\ max_retries >= 1
                        /\ Len(pings) = max_retries
                        /\ pings[Len(pings)] \in Caught
                        /\ Len(sleeps) = max_retries - 1
                /\ conn_result.returned = "False" => max_retries = 0)
    /\ (conn_pc = "attempt") ~> (conn_pc # "attempt")

\* A connect() of the default manager whose three pings failed: it slept 1
\* and 2 seconds between them and raised ConnectionError.
C29_Witness ==
    /\ conn_pc = "idle"
    /\ max_retries = DefaultMaxRetries
    /\ conn_result.op = "connect"
    /\ conn_result.raised = "ConnectionError"
    /\ Len(pings) = 3
    /\ sleeps = <<1, 2>>

\* C30: a session is started only for a command whose action is
\* start_session; when the key holds no command, or a command of another
\* action for a customer whose list holds a node, entrypoint ends without
\* an exception and without a running node.
C30_CommandGuard ==
    \A s \in Sessions :
        /\ pc[s] = "started" =>
            /\ "action" \in DOMAIN command[s]
            /\ command[s].action = <<"start_session">>
        /\ (pc[s] # "waiting" /\ DOMAIN command[s] = {}) =>
            (pc[s] = "skipped" /\ active[s] = {})
        /\ (/\ pc[s] # "waiting"
            /\ "action" \in DOMAIN command[s]
            /\ command[s].action # <<"start_session">>
            /\ agent_schema[s] # <<>>) =>
            (pc[s] = "skipped" /\ active[s] = {})

====
